---- MODULE Spec2Model ----
(***************************************************************************)
(* Scope stack and scoped-resource lifecycle of tvm:                       *)
(*   include/tvm/support/with.h   (With<ContextType>, WithGroup<...>)      *)
(*   include/tvm/ir/scope_stack.h (ScopeStack<T>)                          *)
(* modelled as the composition the headers document:                       *)
(*   ScopeStack<WithGroup<ContextType>>                                    *)
(* driven by a single-threaded client (a visitor) that nests WithNewScope  *)
(* calls, emplaces contexts into Current(), declares bare With<> locals    *)
(* and raises or catches errors.  The control state is the client's call   *)
(* stack (frames); exceptions in flight are the variable exc.  SpecMove is *)
(* the same client that also move-constructs a local WithGroup.            *)
(***************************************************************************)
EXTENDS Integers, Sequences, FiniteSets, TLC

\* ------------------------------------------------------------------ bounds
\* Largest size() of the scope stack the client reaches.
MaxDepth == 3
\* Number of context objects the client constructs in one run.
MaxIds == 2
\* Elements per storage block of std::deque (implementation-defined).
BlockElems == 2

VARIABLES
  stack_,      \* ScopeStack::stack_ : the deque's block map and its size
  mem,         \* element storage: address -> cell (a WithGroup lives in a cell)
  frames,      \* the client's call stack; the last frame is executing
  exc,         \* the exception in flight (NoErr: none)
  log,         \* ordered log of enter/exit hook invocations
  wst,         \* lifetime of each With<ContextType> object, by context id
  nextId,      \* next context id
  terminated,  \* std::terminate was called
  corrupt,     \* an exception left deque::pop_back: the deque is outside its contract
  last         \* outcome of the operation the last step completed (NoLast: none)

vars == <<stack_, mem, frames, exc, log, wst, nextId, terminated, corrupt, last>>

\* ------------------------------------------------------------------ values
Ids == 1..MaxIds

Err(k, id) == [k |-> k, id |-> id]
NoErr == Err("none", 0)

Ev(ev, id) == [ev |-> ev, id |-> id]

Entry(id, xt) == [id |-> id, xt |-> xt]
NoEntry == Entry(0, FALSE)

\* Reverse of a sequence.
Reverse(s) == [i \in 1..Len(s) |-> s[Len(s) + 1 - i]]

\* Ids of a sequence of entries.
IdsOf(es) == [i \in 1..Len(es) |-> es[i].id]

\* Number of events of kind ev for context id in the log l.
Count(l, ev, id) == Cardinality({i \in 1..Len(l) : l[i] = Ev(ev, id)})

\* ------------------------------------------------------------------ storage
MaxBlocks == 2 * ((MaxDepth + BlockElems - 1) \div BlockElems)
Blocks == 1..MaxBlocks
Offsets == 0..(BlockElems - 1)
NoAddr == <<0, 0>>
\* Storage of the one WithGroup the client holds as a local variable.
LocalAddr == <<0, 1>>
Addrs == (Blocks \X Offsets) \cup {LocalAddr}

\* A storage cell: unallocated, allocated without an object, or a live WithGroup.
\* entries is WithGroup::entries_; ins is the history of the ids emplaced
\* successfully into this group, in order.
FreeCell == [st |-> "free", entries |-> <<>>, ins |-> <<>>]
RawCell == [st |-> "raw", entries |-> <<>>, ins |-> <<>>]

\* WithGroup() = default : an empty group.
WithGroup_default == [st |-> "live", entries |-> <<>>, ins |-> <<>>]

\* The allocator hands out the lowest unallocated block.
FreshBlock(m) ==
  CHOOSE b \in Blocks :
    /\ m[<<b, 0>>].st = "free"
    /\ \A c \in Blocks : c < b => m[<<c, 0>>].st # "free"

\* Address of the i-th element (1-based) of the deque d.
Deque_addr(d, i) ==
  <<d.map[((i - 1) \div BlockElems) + 1], (i - 1) % BlockElems>>

\* The k lowest unallocated blocks of m, as a sequence.
RECURSIVE FreshBlocks(_, _)
FreshBlocks(m, k) ==
  IF k = 0 THEN <<>>
  ELSE LET b == FreshBlock(m)
           m1 == [a \in Addrs |-> IF a[1] = b THEN RawCell ELSE m[a]]
       IN <<b>> \o FreshBlocks(m1, k - 1)

\* Contiguous storage that reallocates on growth (std::vector): when the last
\* block is full every element is moved to newly allocated blocks and the old
\* blocks are released.
Vector_emplace_back(d, m) ==
  LET off == d.size % BlockElems
      grow == off = 0
      nmap == IF grow THEN FreshBlocks(m, Len(d.map) + 1) ELSE d.map
      nd == [map |-> nmap, size |-> d.size + 1]
      moved == [a \in Addrs |->
                 IF \E i \in 1..d.size : Deque_addr(nd, i) = a
                 THEN m[Deque_addr(d, CHOOSE i \in 1..d.size : Deque_addr(nd, i) = a)]
                 ELSE IF \E j \in 1..Len(nmap) : nmap[j] = a[1] THEN RawCell
                 ELSE FreeCell]
      m1 == IF grow THEN moved ELSE m
  IN [d |-> nd, m |-> [m1 EXCEPT ![Deque_addr(nd, nd.size)] = WithGroup_default]]

\* std::deque::emplace_back() : a new default-constructed element at the end.
\* Stored elements are never moved; a new block is allocated when the last
\* one is full.
Deque_emplace_back(d, m) ==
  LET off == d.size % BlockElems
      grow == off = 0
      b == IF grow THEN FreshBlock(m) ELSE d.map[Len(d.map)]
      m1 == IF grow THEN [a \in Addrs |-> IF a[1] = b THEN RawCell ELSE m[a]] ELSE m
  IN [d |-> [map |-> IF grow THEN Append(d.map, b) ELSE d.map, size |-> d.size + 1],
      m |-> [m1 EXCEPT ![<<b, off>>] = WithGroup_default]]

\* std::deque::pop_back() after the element's destructor has returned: the
\* last element's storage is given up; a block left without elements is
\* released.
Deque_pop_back(d, m) ==
  LET a == Deque_addr(d, d.size)
      empties == a[2] = 0
  IN [d |-> [map |-> IF empties THEN SubSeq(d.map, 1, Len(d.map) - 1) ELSE d.map,
             size |-> d.size - 1],
      m |-> IF empties THEN [x \in Addrs |-> IF x[1] = a[1] THEN FreeCell ELSE m[x]]
            ELSE [m EXCEPT ![a] = RawCell]]

\* ------------------------------------------------------------------ ScopeStack
\* ScopeStack() { stack_.emplace_back(); }
ScopeStack_ctor ==
  Deque_emplace_back([map |-> <<>>, size |-> 0], [a \in Addrs |-> FreeCell])

\* size()
ScopeStack_size(d) == d.size

\* empty()
ScopeStack_empty(d) == d.size = 0

\* Current() that returns the outermost element, stack_.front().
ScopeStack_Current_front(d) ==
  IF ScopeStack_empty(d) THEN [ok |-> FALSE, ref |-> NoAddr]
  ELSE [ok |-> TRUE, ref |-> Deque_addr(d, 1)]

\* Current() : TVM_FFI_ICHECK(!stack_.empty()); return stack_.back();
ScopeStack_Current(d) ==
  IF ScopeStack_empty(d) THEN [ok |-> FALSE, ref |-> NoAddr]
  ELSE [ok |-> TRUE, ref |-> Deque_addr(d, d.size)]

\* An explicit pop at the end of the normal path only.
Guard_dtor_normal_path_only(d, m, unwinding) ==
  IF unwinding THEN [d |-> d, m |-> m] ELSE Deque_pop_back(d, m)

\* WithNewScope's Guard::~Guard() { stack->pop_back(); } : runs on every exit
\* path of body.
Guard_dtor(d, m, unwinding) == Deque_pop_back(d, m)

\* ------------------------------------------------------------------ With
\* With<ContextType>::With(args...) : ctx_(args...) { ctx_.EnterWithScope(); }
\* ct: the context's constructor raises; et: its enter hook raises.
\* A constructor that raises leaves no object: ~With never runs for it.
With_ctor(l, w, id, ct, et) ==
  IF ct THEN [log |-> l, wst |-> [w EXCEPT ![id] = "failed"], err |-> Err("ctor", id)]
  ELSE IF et
    THEN [log |-> Append(l, Ev("enter_throw", id)),
          wst |-> [w EXCEPT ![id] = "failed"], err |-> Err("enter", id)]
    ELSE [log |-> Append(l, Ev("enter", id)),
          wst |-> [w EXCEPT ![id] = "alive"], err |-> NoErr]

\* A destructor that releases the context without leaving its scope.
With_dtor_no_exit(l, w, e) ==
  [log |-> l, wst |-> [w EXCEPT ![e.id] = "dead"], err |-> NoErr]

\* ~With() that runs the exit hook and keeps its error to itself.
With_dtor_swallows(l, w, e) ==
  [log |-> Append(l, Ev(IF e.xt THEN "exit_throw" ELSE "exit", e.id)),
   wst |-> [w EXCEPT ![e.id] = "dead"], err |-> NoErr]

\* With<ContextType>::~With() noexcept(false) { ctx_.ExitWithScope(); }
\* e.xt: the exit hook raises; the error leaves the destructor.
With_dtor(l, w, e) ==
  IF e.xt
    THEN [log |-> Append(l, Ev("exit_throw", e.id)),
          wst |-> [w EXCEPT ![e.id] = "dead"], err |-> Err("exit", e.id)]
    ELSE [log |-> Append(l, Ev("exit", e.id)),
          wst |-> [w EXCEPT ![e.id] = "dead"], err |-> NoErr]

\* ------------------------------------------------------------------ WithGroup
\* size()
WithGroup_size(g) == Len(g.entries)

\* WithGroup(WithGroup&&) = default : entries_ is move-constructed, which
\* hands the source's elements (the owning pointers, in their order) to the
\* new group and leaves the source's entries_ empty.  No With is constructed
\* or destroyed.
WithGroup_move(g) ==
  [to |-> [st |-> "live", entries |-> g.entries, ins |-> g.ins],
   from |-> [g EXCEPT !.entries = <<>>, !.ins = <<>>]]

\* A slot is appended before the context is constructed and entered, and is
\* left behind when that fails.
WithGroup_Emplace_slot_first(g, l, w, e, ct, et) ==
  LET r == With_ctor(l, w, e.id, ct, et)
  IN [g |-> [g EXCEPT !.entries = Append(@, e)], log |-> r.log, wst |-> r.wst, err |-> r.err]

\* The new entry replaces the last one instead of following it.
WithGroup_Emplace_overwrite(g, l, w, e, ct, et) ==
  LET r == With_ctor(l, w, e.id, ct, et)
      n == Len(g.entries)
  IN IF r.err = NoErr
       THEN [g |-> [g EXCEPT !.entries = IF n = 0 THEN <<e>> ELSE [@ EXCEPT ![n] = e]],
             log |-> r.log, wst |-> r.wst, err |-> NoErr]
       ELSE [g |-> g, log |-> r.log, wst |-> r.wst, err |-> r.err]

\* Emplace(args...) :
\*   entries_.push_back(std::make_unique<With<ContextType>>(args...));
\* make_unique runs first: when With's constructor raises, push_back is not
\* reached.
WithGroup_Emplace(g, l, w, e, ct, et) ==
  LET r == With_ctor(l, w, e.id, ct, et)
  IN IF r.err = NoErr
       THEN [g |-> [g EXCEPT !.entries = Append(@, e)],
             log |-> r.log, wst |-> r.wst, err |-> NoErr]
       ELSE [g |-> g, log |-> r.log, wst |-> r.wst, err |-> r.err]

\* std::uncaught_exceptions() with the exception e in flight.
uncaught_exceptions(e) == IF e = NoErr THEN 0 ELSE 1

\* ~WithGroup : bool unwinding = std::uncaught_exceptions() > 0;
WithGroup_dtor_unwinding(e) == uncaught_exceptions(e) > 0

\* The loop stops one entry early.
WithGroup_dtor_loop_stops_early(g) == Len(g.entries) > 1

\* ~WithGroup : while (!entries_.empty())
WithGroup_dtor_loop(g) == g.entries # <<>>

\* ~WithGroup that leaves the entry in the sequence while it is destroyed.
WithGroup_dtor_take_no_pop(g) ==
  [g |-> g, entry |-> g.entries[Len(g.entries)]]

\* ~WithGroup that takes the oldest entry: entries_.front() / erase(begin()).
WithGroup_dtor_take_front(g) ==
  [g |-> [g EXCEPT !.entries = Tail(@)],
   entry |-> g.entries[1]]

\* ~WithGroup : auto entry = std::move(entries_.back()); entries_.pop_back();
WithGroup_dtor_take(g) ==
  [g |-> [g EXCEPT !.entries = SubSeq(@, 1, Len(@) - 1)],
   entry |-> g.entries[Len(g.entries)]]

\* ~WithGroup : catch (...) { if (!unwinding && !first_exc) first_exc = current; }
WithGroup_dtor_catch(unwinding, first_exc, err) ==
  IF ~unwinding /\ first_exc = NoErr THEN err ELSE first_exc

\* ------------------------------------------------------------------ frames
\* One frame of the client's call stack.
\*   k      "main" | "scope" (a WithNewScope body) | "emplace" (an Emplace whose
\*          context is being constructed) | "with" (the block of a bare With
\*          local) | "dtor" (~WithGroup of the level being popped)
\*   lvl    scope/dtor: index of the level pushed by the call;
\*          emplace: index of the level Current() designated
\*   before size() before the WithNewScope call
\*   ref    emplace: the reference Current() returned; dtor: this
\*   e      emplace/with: the context; dtor: the entry moved out of entries_
\*   ct,et  emplace: the context's constructor / enter hook raises
\*   snap   emplace: entries_ of the referenced group when ref was obtained
\*   unw, first   ~WithGroup's locals unwinding and first_exc
\*   pc     dtor: "loop" (at the while), "reset" (at entry.reset()),
\*          "thrown" (first_exc rethrown)
\*   exited, failed   dtor: ids whose exit hook ran / raised, in order
\*   berr   dtor: the exception in flight when the destructor started
\*   cur    scope/dtor: what Current() designated before the WithNewScope call
\*   outer  dtor: the groups of the levels below, when the teardown began
Frame(k) ==
  [k |-> k, lvl |-> 0, before |-> 0, ref |-> NoAddr, e |-> NoEntry,
   ct |-> FALSE, et |-> FALSE, snap |-> <<>>, unw |-> FALSE, first |-> NoErr,
   pc |-> "", exited |-> <<>>, failed |-> <<>>, berr |-> NoErr,
   cur |-> NoAddr, outer |-> <<>>]

Top == frames[Len(frames)]
Pop == SubSeq(frames, 1, Len(frames) - 1)
SetTop(f) == [frames EXCEPT ![Len(frames)] = f]

\* Outcome of the operation that the last step completed.
\*   op "dtor": a ~WithGroup that finished (returned or raised), with the
\*      WithNewScope exit it belongs to; "emplace": an Emplace that returned
\*      or raised; "with": a bare With whose lifetime ended.
\*   ins, exited, failed, unw, raised, left: the group's insertion history,
\*      the ids whose exit hook ran / raised, ~WithGroup's unwinding, the
\*      error it raised, and size() when it finished
\*   before, after: size() of the stack before the WithNewScope call and
\*      after it was left; berr: the error in flight when teardown began;
\*      out: the error in flight afterwards; reached: control came back to
\*      the caller
\*   ref, e, pre: Emplace's target, its context, and entries_ before it
\*   op "call": WithNewScope has pushed a level and is about to call body
\*   op "move": a local group was move-constructed from the group cur
\*      (ref: the local group, pre and ins: the source's entries_ and history
\*      before); op "local": the ~WithGroup of the local group finished
\*   cur, outer: what Current() designated before the WithNewScope call, and
\*      the groups of the levels below when the teardown began
NoLast ==
  [op |-> "none", id |-> 0, ok |-> FALSE, ins |-> <<>>, exited |-> <<>>,
   failed |-> <<>>, unw |-> FALSE, raised |-> NoErr, left |-> 0, before |-> 0,
   after |-> 0, out |-> NoErr, berr |-> NoErr, reached |-> FALSE,
   ref |-> NoAddr, e |-> NoEntry, pre |-> <<>>, cur |-> NoAddr, outer |-> <<>>]

Running == ~terminated /\ ~corrupt

\* The four kinds of context a client passes: sound, exit hook raises,
\* constructor raises, enter hook raises.
Kinds == {"ok", "exit_raises", "ctor_raises", "enter_raises"}

Init ==
  /\ stack_ = ScopeStack_ctor.d
  /\ mem = ScopeStack_ctor.m
  /\ frames = <<Frame("main")>>
  /\ exc = NoErr
  /\ log = <<>>
  /\ wst = [i \in Ids |-> "unborn"]
  /\ nextId = 1
  /\ terminated = FALSE
  /\ corrupt = FALSE
  /\ last = NoLast

\* ------------------------------------------------------------------ actions
\* The top frame runs client code that may call into the library: the main
\* program or the body of a WithNewScope.
InBody == Running /\ exc = NoErr /\ Top.k \in {"main", "scope"}

\* WithNewScope(body), up to the call of body:
\*   stack_.emplace_back(); Guard guard{&stack_}; body();
\* Called from client code, also from the constructor or enter hook of a
\* context that an Emplace on Current() is constructing (re-entrant use).
CallWithNewScope ==
  /\ Running /\ exc = NoErr
  /\ Top.k \in {"main", "scope", "emplace"}
  /\ ScopeStack_size(stack_) < MaxDepth
  /\ LET r == Deque_emplace_back(stack_, mem)
     IN /\ stack_' = r.d
        /\ mem' = r.m
        /\ frames' = Append(frames, [Frame("scope") EXCEPT
                                       !.lvl = ScopeStack_size(r.d),
                                       !.before = ScopeStack_size(stack_),
                                       !.cur = ScopeStack_Current(stack_).ref,
                                       !.pc = "body"])
  /\ last' = [NoLast EXCEPT !.op = "call", !.before = ScopeStack_size(stack_)]
  /\ UNCHANGED <<exc, log, wst, nextId, terminated, corrupt>>

\* body ends with the exception e in flight (NoErr: it returned): the Guard's
\* destructor calls stack->pop_back(), which runs ~WithGroup on the last
\* element; its first two statements sample unwinding and clear first_exc.
GuardBegins(e) ==
  [Frame("dtor") EXCEPT
     !.lvl = Top.lvl, !.before = Top.before,
     !.ref = Deque_addr(stack_, ScopeStack_size(stack_)),
     !.unw = WithGroup_dtor_unwinding(e), !.first = NoErr,
     !.pc = "loop", !.berr = e, !.cur = Top.cur,
     !.outer = [i \in 1..Top.before |-> mem[Deque_addr(stack_, i)]]]

\* body returns normally.
BodyReturn ==
  /\ Running /\ exc = NoErr /\ Top.k = "scope"
  /\ frames' = SetTop(GuardBegins(NoErr))
  /\ last' = NoLast
  /\ UNCHANGED <<stack_, mem, exc, log, wst, nextId, terminated, corrupt>>

\* body raises an error of its own.
BodyThrow ==
  /\ Running /\ exc = NoErr /\ Top.k = "scope"
  /\ exc' = Err("body", Top.lvl)
  /\ frames' = SetTop(GuardBegins(exc'))
  /\ last' = NoLast
  /\ UNCHANGED <<stack_, mem, log, wst, nextId, terminated, corrupt>>

\* An error raised by something body called leaves body uncaught.
BodyPropagate ==
  /\ Running /\ exc # NoErr /\ Top.k = "scope"
  /\ frames' = SetTop(GuardBegins(exc))
  /\ last' = NoLast
  /\ UNCHANGED <<stack_, mem, exc, log, wst, nextId, terminated, corrupt>>

\* Client code catches the error raised by something it called.
BodyCatch ==
  /\ Running /\ exc # NoErr /\ Top.k \in {"main", "scope"}
  /\ exc' = NoErr
  /\ last' = NoLast
  /\ UNCHANGED <<stack_, mem, frames, log, wst, nextId, terminated, corrupt>>

\* stack.Current().Emplace(args...) : Current() is evaluated, then the
\* context's constructor starts running.
EmplaceBegin ==
  /\ InBody
  /\ nextId <= MaxIds
  /\ \E kind \in Kinds :
       LET c == ScopeStack_Current(stack_)
       IN IF c.ok
            THEN /\ frames' = Append(frames, [Frame("emplace") EXCEPT
                                 !.lvl = ScopeStack_size(stack_),
                                 !.ref = c.ref,
                                 !.e = Entry(nextId, kind = "exit_raises"),
                                 !.ct = (kind = "ctor_raises"),
                                 !.et = (kind = "enter_raises"),
                                 !.snap = mem[c.ref].entries])
                 /\ nextId' = nextId + 1
                 /\ exc' = exc
            ELSE /\ exc' = Err("icheck", 0)
                 /\ UNCHANGED <<frames, nextId>>
  /\ last' = NoLast
  /\ UNCHANGED <<stack_, mem, log, wst, terminated, corrupt>>

\* The rest of Emplace: With's constructor finishes (or raises) and the new
\* entry is pushed onto entries_ of the group the reference designates.
EmplaceFinish ==
  /\ Running /\ exc = NoErr /\ Top.k = "emplace"
  /\ LET f == Top
         g == mem[f.ref]
         r == WithGroup_Emplace(g, log, wst, f.e, f.ct, f.et)
         entered == Count(r.log, "enter", f.e.id) = 1
     IN IF g.st = "live"
          THEN /\ mem' = [mem EXCEPT ![f.ref] =
                            [r.g EXCEPT !.ins = IF entered THEN Append(@, f.e.id) ELSE @]]
               /\ log' = r.log
               /\ wst' = r.wst
               /\ exc' = r.err
               /\ last' = [NoLast EXCEPT !.op = "emplace", !.id = f.e.id,
                                         !.ok = (r.err = NoErr), !.out = r.err,
                                         !.ref = f.ref, !.e = f.e, !.pre = f.snap]
               /\ terminated' = terminated
          ELSE \* the reference dangles: the write goes to storage that holds no group
               /\ terminated' = TRUE
               /\ last' = NoLast
               /\ UNCHANGED <<mem, log, wst, exc>>
  /\ frames' = Pop
  /\ UNCHANGED <<stack_, nextId, corrupt>>

\* A WithNewScope called from the context's constructor raised: the
\* constructor lets the error through and Emplace fails with it.
EmplaceUnwind ==
  /\ Running /\ exc # NoErr /\ Top.k = "emplace"
  /\ wst' = [wst EXCEPT ![Top.e.id] = "failed"]
  /\ last' = [NoLast EXCEPT !.op = "emplace", !.id = Top.e.id, !.ok = FALSE,
                            !.out = exc, !.ref = Top.ref, !.e = Top.e,
                            !.pre = Top.snap]
  /\ frames' = Pop
  /\ UNCHANGED <<stack_, mem, exc, log, nextId, terminated, corrupt>>

\* { With<ContextType> w(args...); ... : a bare scoped resource is declared.
WithBegin ==
  /\ InBody
  /\ nextId <= MaxIds
  /\ \E kind \in Kinds :
       LET e == Entry(nextId, kind = "exit_raises")
           r == With_ctor(log, wst, nextId, kind = "ctor_raises", kind = "enter_raises")
       IN /\ log' = r.log
          /\ wst' = r.wst
          /\ exc' = r.err
          /\ frames' = IF r.err = NoErr
                         THEN Append(frames, [Frame("with") EXCEPT !.e = e, !.pc = "block"])
                         ELSE frames
  /\ nextId' = nextId + 1
  /\ last' = NoLast
  /\ UNCHANGED <<stack_, mem, terminated, corrupt>>

\* ... } : the block of a bare With ends normally; ~With runs, and an error
\* of the exit hook leaves the destructor towards the enclosing code.
WithEnd ==
  /\ Running /\ exc = NoErr /\ Top.k = "with"
  /\ LET r == With_dtor(log, wst, Top.e)
     IN /\ log' = r.log
        /\ wst' = r.wst
        /\ exc' = r.err
        /\ last' = [NoLast EXCEPT !.op = "with", !.id = Top.e.id, !.out = r.err,
                                  !.reached = TRUE]
  /\ frames' = Pop
  /\ UNCHANGED <<stack_, mem, nextId, terminated, corrupt>>

\* The block of a bare With raises: ~With runs during unwinding.  An error of
\* the exit hook leaves a destructor called by the unwinding: std::terminate.
WithThrow ==
  /\ Running /\ exc = NoErr /\ Top.k = "with"
  /\ LET r == With_dtor(log, wst, Top.e)
         E == Err("block", Top.e.id)
     IN /\ log' = r.log
        /\ wst' = r.wst
        /\ exc' = E
        /\ terminated' = (r.err # NoErr)
        /\ last' = [NoLast EXCEPT !.op = "with", !.id = Top.e.id, !.unw = TRUE,
                                  !.berr = E, !.out = E, !.raised = r.err,
                                  !.reached = (r.err = NoErr)]
        /\ frames' = IF r.err = NoErr THEN Pop ELSE frames
  /\ UNCHANGED <<stack_, mem, nextId, corrupt>>

\* Frames that run ~WithGroup: on the element pop_back() destroys ("dtor"),
\* or on the client's local group ("ldtor").
DtorKinds == {"dtor", "ldtor"}

\* ~WithGroup, one iteration up to entry.reset():
\*   while (!entries_.empty()) { auto entry = std::move(entries_.back());
\*                               entries_.pop_back();
DtorTake ==
  /\ Running /\ Top.k \in DtorKinds /\ Top.pc = "loop"
  /\ WithGroup_dtor_loop(mem[Top.ref])
  /\ LET t == WithGroup_dtor_take(mem[Top.ref])
     IN /\ mem' = [mem EXCEPT ![Top.ref] = t.g]
        /\ frames' = SetTop([Top EXCEPT !.e = t.entry, !.pc = "reset"])
  /\ last' = NoLast
  /\ UNCHANGED <<stack_, exc, log, wst, nextId, terminated, corrupt>>

\* ~WithGroup, the rest of the iteration:
\*   try { entry.reset(); } catch (...) { if (!unwinding && !first_exc) ... }
\* entry.reset() runs ~With and with it the exit hook.  Here the hook returns,
\* or its error reaches the handler.  A deleter that raises is outside the
\* contract of std::unique_ptr::reset(), so what follows a raising hook is not
\* defined by the language: this action is the outcome the handler is written
\* for, DtorResetTerminate the outcome of reset()'s noexcept boundary.
DtorReset ==
  /\ Running /\ Top.k \in DtorKinds /\ Top.pc = "reset"
  /\ LET r == With_dtor(log, wst, Top.e)
     IN /\ log' = r.log
        /\ wst' = r.wst
        /\ frames' = SetTop([Top EXCEPT
             !.pc = "loop",
             !.e = NoEntry,
             !.exited = Append(@, Top.e.id),
             !.failed = IF r.err = NoErr THEN @ ELSE Append(@, Top.e.id),
             !.first = IF r.err = NoErr THEN @
                       ELSE WithGroup_dtor_catch(Top.unw, Top.first, r.err)])
  /\ last' = NoLast
  /\ UNCHANGED <<stack_, mem, exc, nextId, terminated, corrupt>>

\* entry.reset() is std::unique_ptr::reset(), declared noexcept, whose
\* contract requires a deleter that does not raise.  An exit hook that raises
\* breaks that contract: the error meets reset()'s noexcept boundary and
\* std::terminate is called before the handler is reached.
DtorResetTerminate ==
  /\ Running /\ Top.k \in DtorKinds /\ Top.pc = "reset"
  /\ Top.e.xt
  /\ LET r == With_dtor(log, wst, Top.e)
     IN /\ log' = r.log
        /\ wst' = r.wst
        /\ frames' = SetTop([Top EXCEPT
             !.exited = Append(@, Top.e.id),
             !.failed = Append(@, Top.e.id)])
  /\ terminated' = TRUE
  /\ last' = NoLast
  /\ UNCHANGED <<stack_, mem, exc, nextId, corrupt>>

\* What ~WithGroup leaves behind when it finishes with first_exc = first.
DtorOutcome(f, first) ==
  [NoLast EXCEPT !.op = "dtor", !.ins = mem[f.ref].ins, !.exited = f.exited,
                 !.failed = f.failed, !.unw = f.unw, !.raised = first,
                 !.left = WithGroup_size(mem[f.ref]), !.before = f.before,
                 !.berr = f.berr, !.cur = f.cur, !.outer = f.outer]

\* ~WithGroup : the loop ends with no error recorded; the destructor returns,
\* pop_back() completes, the Guard is gone and WithNewScope returns to its
\* caller, or lets the error of body continue.
DtorFinish ==
  /\ Running /\ Top.k = "dtor" /\ Top.pc = "loop"
  /\ ~WithGroup_dtor_loop(mem[Top.ref])
  /\ Top.first = NoErr
  /\ LET r == Guard_dtor(stack_, mem, Top.unw)
     IN /\ stack_' = r.d
        /\ mem' = r.m
        /\ last' = [DtorOutcome(Top, NoErr) EXCEPT
                      !.after = ScopeStack_size(r.d), !.out = exc, !.reached = TRUE]
  /\ frames' = Pop
  /\ UNCHANGED <<exc, log, wst, nextId, terminated, corrupt>>

\* ~WithGroup : if (first_exc) std::rethrow_exception(first_exc);
\* The error leaves the element's destructor inside std::deque::pop_back(),
\* whose contract requires destructors that do not raise.  Where pop_back()
\* is noexcept the error meets that boundary: std::terminate.
DtorRethrowTerminate ==
  /\ Running /\ Top.k = "dtor" /\ Top.pc = "loop"
  /\ ~WithGroup_dtor_loop(mem[Top.ref])
  /\ Top.first # NoErr
  /\ last' = [DtorOutcome(Top, Top.first) EXCEPT
                !.after = ScopeStack_size(stack_), !.out = NoErr, !.reached = FALSE]
  /\ frames' = SetTop([Top EXCEPT !.pc = "thrown"])
  /\ terminated' = TRUE
  /\ UNCHANGED <<stack_, mem, exc, log, wst, nextId, corrupt>>

\* Where pop_back() is not noexcept and destroys the element before it
\* shrinks the deque, the error leaves pop_back(), the Guard and
\* WithNewScope; the deque keeps counting the destroyed element.
DtorRethrowEscape ==
  /\ Running /\ Top.k = "dtor" /\ Top.pc = "loop"
  /\ ~WithGroup_dtor_loop(mem[Top.ref])
  /\ Top.first # NoErr
  /\ mem' = [mem EXCEPT ![Top.ref] = RawCell]
  /\ exc' = Top.first
  /\ last' = [DtorOutcome(Top, Top.first) EXCEPT
                !.after = ScopeStack_size(stack_), !.out = Top.first, !.reached = TRUE]
  /\ frames' = Pop
  /\ corrupt' = TRUE
  /\ UNCHANGED <<stack_, log, wst, nextId, terminated>>

Next ==
  \/ CallWithNewScope
  \/ BodyReturn
  \/ BodyThrow
  \/ BodyPropagate
  \/ BodyCatch
  \/ EmplaceBegin
  \/ EmplaceFinish
  \/ EmplaceUnwind
  \/ WithBegin
  \/ WithEnd
  \/ WithThrow
  \/ DtorTake
  \/ DtorReset
  \/ DtorResetTerminate
  \/ DtorFinish
  \/ DtorRethrowTerminate
  \/ DtorRethrowEscape

Spec == Init /\ [][Next]_vars

\* ------------------------------------------------------------------ moves
\* { WithGroup<ContextType> local(std::move(stack.Current())); ... :
\* client code move-constructs a local group from the current level's group.
MoveBegin ==
  /\ InBody
  /\ mem[LocalAddr].st = "free"
  /\ LET c == ScopeStack_Current(stack_).ref
         r == WithGroup_move(mem[c])
     IN /\ mem' = [mem EXCEPT ![LocalAddr] = r.to, ![c] = r.from]
        /\ frames' = Append(frames, [Frame("local") EXCEPT
                                       !.ref = LocalAddr, !.cur = c,
                                       !.snap = mem[c].entries, !.pc = "block"])
        /\ last' = [NoLast EXCEPT !.op = "move", !.ref = LocalAddr, !.cur = c,
                                  !.pre = mem[c].entries, !.ins = mem[c].ins]
  /\ UNCHANGED <<stack_, exc, log, wst, nextId, terminated, corrupt>>

\* The local group goes out of scope with the exception e in flight (NoErr:
\* its block ended normally): ~WithGroup begins on it.
LocalDtorBegins(e) ==
  [Frame("ldtor") EXCEPT
     !.ref = LocalAddr, !.cur = Top.cur, !.snap = Top.snap,
     !.unw = WithGroup_dtor_unwinding(e), !.first = NoErr,
     !.pc = "loop", !.berr = e]

\* ... } : the block of the local group ends normally.
LocalEnd ==
  /\ Running /\ exc = NoErr /\ Top.k = "local"
  /\ frames' = SetTop(LocalDtorBegins(NoErr))
  /\ last' = NoLast
  /\ UNCHANGED <<stack_, mem, exc, log, wst, nextId, terminated, corrupt>>

\* The block of the local group raises: ~WithGroup runs during unwinding.
LocalThrow ==
  /\ Running /\ exc = NoErr /\ Top.k = "local"
  /\ exc' = Err("block", 0)
  /\ frames' = SetTop(LocalDtorBegins(exc'))
  /\ last' = NoLast
  /\ UNCHANGED <<stack_, mem, log, wst, nextId, terminated, corrupt>>

\* ~WithGroup of the local group: the loop ends with no error recorded; the
\* destructor returns and the enclosing code goes on, or the error of the
\* block continues.
LocalDtorFinish ==
  /\ Running /\ Top.k = "ldtor" /\ Top.pc = "loop"
  /\ ~WithGroup_dtor_loop(mem[Top.ref])
  /\ Top.first = NoErr
  /\ mem' = [mem EXCEPT ![Top.ref] = FreeCell]
  /\ last' = [DtorOutcome(Top, NoErr) EXCEPT
                !.op = "local", !.out = exc, !.reached = TRUE]
  /\ frames' = Pop
  /\ UNCHANGED <<stack_, exc, log, wst, nextId, terminated, corrupt>>

\* ~WithGroup of the local group : if (first_exc) std::rethrow_exception(...).
\* first_exc is only recorded when the destructor was not called by an
\* unwinding, so the error leaves the noexcept(false) destructor of a local
\* variable and propagates to the enclosing code.
LocalDtorRethrow ==
  /\ Running /\ Top.k = "ldtor" /\ Top.pc = "loop"
  /\ ~WithGroup_dtor_loop(mem[Top.ref])
  /\ Top.first # NoErr
  /\ mem' = [mem EXCEPT ![Top.ref] = FreeCell]
  /\ exc' = Top.first
  /\ last' = [DtorOutcome(Top, Top.first) EXCEPT
                !.op = "local", !.out = Top.first, !.reached = TRUE]
  /\ frames' = Pop
  /\ UNCHANGED <<stack_, log, wst, nextId, terminated, corrupt>>

NextMove ==
  \/ Next
  \/ MoveBegin
  \/ LocalEnd
  \/ LocalThrow
  \/ LocalDtorFinish
  \/ LocalDtorRethrow

\* The client of Spec that also move-constructs local groups.
SpecMove == Init /\ [][NextMove]_vars

\* ------------------------------------------------------------------ sanity
TypeOK ==
  /\ stack_.size \in 0..(MaxDepth + 1)
  /\ Len(frames) >= 1
  /\ frames[1].k = "main"
  /\ nextId \in 1..(MaxIds + 1)
  /\ terminated \in BOOLEAN
  /\ corrupt \in BOOLEAN

\* ------------------------------------------------------------------ views
\* Exit-hook invocations of context id recorded in the log.
Exits(id) == Count(log, "exit", id) + Count(log, "exit_throw", id)

\* Position of the first event of kind ev for id in the log (0: none).
Pos(ev, id) ==
  IF \E i \in 1..Len(log) : log[i] = Ev(ev, id)
    THEN CHOOSE i \in 1..Len(log) :
           log[i] = Ev(ev, id) /\ \A j \in 1..(i - 1) : log[j] # Ev(ev, id)
    ELSE 0

\* The last step completed a ~WithGroup (it returned or raised).
DtorCompleted == last.op = "dtor"

\* The process was terminated inside ~WithGroup, at entry.reset().
DtorCutShort == terminated /\ Top.k = "dtor" /\ Top.pc = "reset"

\* ------------------------------------------------------------------ claims

\* C1 (as claimed): whenever the destruction of a group is over, its exit hooks
\* have been invoked in exactly the reverse of the insertion order en, ..., e1,
\* whether or not an exit hook raised.
C1_ExitsInReverseInsertionOrder ==
  /\ DtorCompleted => last.exited = Reverse(last.ins)
  /\ DtorCutShort => Top.exited = Reverse(mem[Top.ref].ins)

\* C2 (as claimed): whenever the destruction of a group that began with no
\* failure in flight is over, every entry it held has had its exit hook
\* invoked exactly once, whichever exit hooks raised.
C2_EveryEntryExitedOnce ==
  /\ (DtorCompleted /\ ~last.unw) =>
       \A i \in 1..Len(last.ins) : Exits(last.ins[i]) = 1
  /\ (DtorCutShort /\ ~Top.unw) =>
       \A i \in 1..Len(mem[Top.ref].ins) : Exits(mem[Top.ref].ins[i]) = 1

\* C3 (as claimed): whenever the destruction of a group that began with no
\* failure in flight is over, the destructor has raised an error iff some exit
\* hook raised, and that error is the one of the first exit hook that raised.
C3_FirstTeardownErrorIsRaised ==
  /\ (DtorCompleted /\ ~last.unw) =>
       last.raised = IF last.failed = <<>> THEN NoErr ELSE Err("exit", last.failed[1])
  /\ (DtorCutShort /\ ~Top.unw) => Top.failed = <<>>

\* C4 (as claimed): whenever the destruction of a group that began with a
\* failure E in flight is over, every entry's exit hook has been invoked, the
\* destructor raised nothing, and E is the error its caller observes.
C4_UnwindTeardownIsSuppressed ==
  /\ (DtorCompleted /\ last.unw) =>
       /\ \A i \in 1..Len(last.ins) : Exits(last.ins[i]) = 1
       /\ last.raised = NoErr
       /\ last.reached /\ exc = last.berr
  /\ ~(DtorCutShort /\ Top.unw)

\* C5: an Emplace that fails (the context's constructor or enter hook raised)
\* leaves the group with the entries it had when Emplace was called, the error
\* is in flight at its caller, and no exit hook is ever invoked for a context
\* whose construction failed.
C5_FailedEmplaceLeavesGroupUnchanged ==
  /\ (last.op = "emplace" /\ ~last.ok) =>
       /\ mem[last.ref].entries = last.pre
       /\ exc # NoErr /\ exc = last.out
  /\ \A id \in Ids : wst[id] = "failed" => Exits(id) = 0

\* A failed Emplace on a group that already holds an entry, with the enter
\* hook raising.
C5_Witness ==
  /\ last.op = "emplace" /\ ~last.ok
  /\ last.out = Err("enter", last.id)
  /\ Len(last.pre) >= 1

\* C6: when WithNewScope is left by an error of body, the level it pushed is
\* gone: size() is what it was before the call, and the error in flight at the
\* caller is the error of body.
C6_BodyErrorRestoresSize ==
  (DtorCompleted /\ last.unw /\ last.reached) =>
     /\ last.after = last.before
     /\ ScopeStack_size(stack_) = last.before
     /\ last.out = last.berr /\ exc = last.berr /\ exc # NoErr

\* A nested WithNewScope (called at depth >= 2) whose level holds a resource
\* is left by an error of body.
C6_Witness ==
  /\ DtorCompleted /\ last.unw /\ last.reached
  /\ last.before >= 2
  /\ last.ins # <<>>

\* C7: the reference that an Emplace in progress obtained from Current() still
\* designates the element of its level, a live group with the entries it had
\* when the reference was taken, whatever scopes were pushed and popped since.
C7_CurrentReferenceIsStable ==
  \A i \in 1..Len(frames) :
    frames[i].k = "emplace" =>
      /\ frames[i].lvl <= ScopeStack_size(stack_)
      /\ frames[i].ref = Deque_addr(stack_, frames[i].lvl)
      /\ mem[frames[i].ref].st = "live"
      /\ mem[frames[i].ref].entries = frames[i].snap

\* An Emplace in progress whose constructor called WithNewScope twice nested,
\* so that the deque took a new block while the reference was held.
C7_Witness ==
  \E i \in 1..Len(frames) :
    /\ frames[i].k = "emplace"
    /\ ScopeStack_size(stack_) >= frames[i].lvl + 2
    /\ Len(stack_.map) >= 2

\* C8: per With object: before construction no hook has run; while it is alive
\* its enter hook has run exactly once and returned, and its exit hook has not
\* run; once destroyed its exit hook has run exactly once, after the enter
\* hook; when construction failed the enter hook ran at most once (and raised)
\* and the exit hook never runs.
C8_EnterOnceExitOnce ==
  \A id \in Ids :
    LET en == Count(log, "enter", id)
        ent == Count(log, "enter_throw", id)
    IN /\ wst[id] = "unborn" => (en = 0 /\ ent = 0 /\ Exits(id) = 0)
       /\ wst[id] = "alive" => (en = 1 /\ ent = 0 /\ Exits(id) = 0)
       /\ wst[id] = "dead" =>
            /\ en = 1 /\ ent = 0 /\ Exits(id) = 1
            /\ Pos("enter", id) < Pos("exit", id) + Pos("exit_throw", id)
       /\ wst[id] = "failed" => (en = 0 /\ ent <= 1 /\ Exits(id) = 0)

\* A bare With has just been destroyed at the end of its block, and another
\* context's enter hook has raised.
C8_Witness ==
  /\ last.op = "with" /\ wst[last.id] = "dead"
  /\ \E id \in Ids : wst[id] = "failed" /\ Count(log, "enter_throw", id) = 1

\* C9: a group that is not being destroyed holds exactly the contexts whose
\* enter hook returned on an Emplace into it, in that order, so size() is the
\* number of successful Emplace calls; a successful Emplace appends its entry
\* after the existing ones.
C9_SizeCountsSuccessfulEmplace ==
  /\ \A a \in Addrs :
       (mem[a].st = "live" /\ ~\E i \in 1..Len(frames) :
                                  frames[i].k = "dtor" /\ frames[i].ref = a) =>
         /\ IdsOf(mem[a].entries) = mem[a].ins
         /\ WithGroup_size(mem[a]) = Len(mem[a].ins)
  /\ (last.op = "emplace" /\ last.ok) =>
       /\ mem[last.ref].entries = Append(last.pre, last.e)
       /\ WithGroup_size(mem[last.ref]) = Len(last.pre) + 1

\* The second successful Emplace into a group.
C9_Witness ==
  /\ last.op = "emplace" /\ last.ok
  /\ Len(last.pre) = 1
  /\ WithGroup_size(mem[last.ref]) = 2

\* C10: when ~WithGroup finishes, by returning or by raising, the group holds
\* no entry.
C10_EmptyAfterDestruction ==
  DtorCompleted => last.left = 0

\* A group that held two entries has been destroyed.
C10_Witness ==
  DtorCompleted /\ Len(last.ins) >= 2 /\ last.left = 0

\* ------------------------------------------------------------------ views
\* Indices of the frames of WithNewScope calls in progress: running their
\* body, or popping their level.
CallsInProgress == {i \in 1..Len(frames) : frames[i].k \in {"scope", "dtor"}}

\* The innermost WithNewScope call in progress (0: none).
Innermost ==
  IF CallsInProgress = {} THEN 0
  ELSE CHOOSE i \in CallsInProgress : \A j \in CallsInProgress : j <= i

\* The last step let WithNewScope return normally to its caller.
ReturnedNormally ==
  last.op = "dtor" /\ ~last.unw /\ last.reached /\ exc = NoErr

\* C11: right after the push, Current() is a new empty group and size() is the
\* size before the call plus one; while the body of the innermost call runs,
\* size() is the size before that call plus one and Current() is the element
\* the call pushed; when the call has returned normally, size() is the size
\* before the call and Current() is the element that was current before it.
C11_OnePushOnePop ==
  /\ last.op = "call" =>
       /\ ScopeStack_size(stack_) = last.before + 1
       /\ mem[ScopeStack_Current(stack_).ref] = WithGroup_default
  /\ (Innermost # 0 /\ exc = NoErr) =>
       LET f == frames[Innermost]
       IN f.k = "scope" =>
            /\ ScopeStack_size(stack_) = f.before + 1
            /\ f.lvl = f.before + 1
            /\ ScopeStack_Current(stack_).ref = Deque_addr(stack_, f.lvl)
            /\ mem[ScopeStack_Current(stack_).ref].st = "live"
  /\ ReturnedNormally =>
       /\ ScopeStack_size(stack_) = last.before
       /\ ScopeStack_Current(stack_).ref = last.cur
       /\ mem[last.cur].st = "live"

\* A WithNewScope called inside another one, whose level held a resource, has
\* returned normally.
C11_Witness ==
  /\ ReturnedNormally
  /\ last.before >= 2
  /\ last.ins # <<>>
  /\ frames[Innermost].k = "scope"

\* The last step destroyed a bare With whose exit hook raised.
BareExitRaised == last.op = "with" /\ Count(log, "exit_throw", last.id) = 1

\* C12, as stated: whenever the exit hook of a bare With raises while the
\* wrapper is destroyed, that error propagates to the code that ended the
\* wrapper's lifetime.
C12_BareExitErrorPropagates ==
  BareExitRaised => (exc = Err("exit", last.id) /\ ~terminated)

\* C12, amended: when the exit hook of a bare With raises while the wrapper is
\* destroyed with no other error in flight, that error propagates to the
\* enclosing code; when the wrapper is destroyed by the unwinding of another
\* error, the process is terminated and neither error reaches a caller.
C12_BareExitErrorPropagatesUnlessUnwinding ==
  BareExitRaised =>
    IF last.unw
      THEN terminated /\ ~last.reached /\ exc = last.berr
      ELSE /\ exc = Err("exit", last.id)
           /\ last.out = exc
           /\ last.reached
           /\ ~terminated
           /\ wst[last.id] = "dead"

\* The block of a bare With ended normally, its exit hook raised, and the
\* error is on its way to the enclosing code.
C12_Witness ==
  /\ BareExitRaised
  /\ ~last.unw
  /\ exc = Err("exit", last.id)
  /\ ~terminated

\* Position of the exit-hook invocation of id in the log (0: none).
ExitPos(id) ==
  IF Pos("exit", id) # 0 THEN Pos("exit", id) ELSE Pos("exit_throw", id)

\* C13: the log of enter and exit events over all levels is well nested:
\* when a resource has been exited, every resource entered between its enter
\* and its exit was exited before it.
C13_LogIsWellNested ==
  \A a \in Ids : \A b \in Ids :
    (/\ Pos("enter", a) # 0
     /\ Pos("enter", b) > Pos("enter", a)
     /\ ExitPos(a) # 0
     /\ Pos("enter", b) < ExitPos(a))
    => (ExitPos(b) # 0 /\ ExitPos(b) < ExitPos(a))

\* Two resources were entered one after the other and both exited, the later
\* one first, and every level pushed meanwhile has been popped.
C13_Witness ==
  /\ \E a \in Ids : \E b \in Ids :
       /\ Pos("enter", a) # 0
       /\ Pos("enter", a) < Pos("enter", b)
       /\ Pos("enter", b) < ExitPos(b)
       /\ ExitPos(b) < ExitPos(a)
  /\ ScopeStack_size(stack_) = 1
  /\ DtorCompleted

\* A ~WithGroup is in progress (or was cut short by std::terminate).
InTeardown == Top.k = "dtor" /\ Top.pc \in {"loop", "reset"}

\* Entries of the group under teardown whose teardown has started: those
\* whose exit hook has been invoked, and the one taken out for entry.reset().
TeardownStarted ==
  Len(Top.exited) + (IF Top.pc = "reset" /\ ~terminated THEN 1 ELSE 0)

\* C14: during ~WithGroup, size() is the number of entries whose teardown has
\* not started, and the entries left are the first size() inserted ones; the
\* entry whose exit hook is about to run or running was inserted as number
\* size() + 1.
C14_EntryRemovedBeforeExit ==
  InTeardown =>
    LET g == mem[Top.ref]
    IN /\ WithGroup_size(g) = Len(g.ins) - TeardownStarted
       /\ IdsOf(g.entries) = SubSeq(g.ins, 1, WithGroup_size(g))
       /\ Top.pc = "reset" =>
            IF terminated
              THEN g.ins[WithGroup_size(g) + 1] = Top.exited[Len(Top.exited)]
              ELSE g.ins[WithGroup_size(g) + 1] = Top.e.id

\* The exit hook of the second of two entries raised and the handler was
\* reached; the first entry has been taken out, the group is empty and its
\* exit hook is about to run.
C14_Witness ==
  /\ InTeardown /\ Top.pc = "reset" /\ ~terminated
  /\ Len(mem[Top.ref].ins) = 2
  /\ Top.e.id = mem[Top.ref].ins[1]
  /\ WithGroup_size(mem[Top.ref]) = 0
  /\ Top.failed = <<mem[Top.ref].ins[2]>>

\* The groups in outer, the levels below the one being exited as they were
\* when its teardown began, are as they were, and none of their resources has
\* been exited.
OuterLevelsUntouched(outer) ==
  \A i \in 1..Len(outer) :
    /\ mem[Deque_addr(stack_, i)] = outer[i]
    /\ \A j \in 1..Len(outer[i].entries) :
         /\ wst[outer[i].entries[j].id] = "alive"
         /\ Exits(outer[i].entries[j].id) = 0

\* C15 (as claimed): when WithNewScope exits a level, whether it gets back to
\* its caller or the process ends inside the exit, the resources emplaced
\* into that level, and only those, have been exited, newest first, and the
\* groups of all outer levels are as they were.
C15_LevelExitReleasesItsResources ==
  /\ DtorCompleted =>
       /\ last.exited = Reverse(last.ins)
       /\ OuterLevelsUntouched(last.outer)
  /\ DtorCutShort =>
       /\ Top.exited = Reverse(mem[Top.ref].ins)
       /\ OuterLevelsUntouched(Top.outer)

C17_BodyErrorWinsOverExitErrors ==
  /\ (DtorCompleted /\ last.unw /\ last.failed # <<>>) =>
       /\ last.reached /\ ~terminated
       /\ exc = last.berr
       /\ \A i \in 1..Len(last.ins) : Exits(last.ins[i]) = 1
       /\ ScopeStack_size(stack_) = last.before
  /\ ~(DtorCutShort /\ Top.unw /\ Top.failed # <<>>)

\* C18 (as claimed): when the body of WithNewScope returned normally and an
\* exit hook of the popped level raised, the teardown is not cut short, the
\* level is removed (size() is what it was before the call), every resource
\* of the level has been exited once, and the first teardown error is the
\* error that leaves WithNewScope.
C18_ExitErrorLeavesAfterPop ==
  /\ (DtorCompleted /\ ~last.unw /\ last.failed # <<>>) =>
       /\ last.reached /\ ~terminated
       /\ exc = Err("exit", last.failed[1])
       /\ \A i \in 1..Len(last.ins) : Exits(last.ins[i]) = 1
       /\ ScopeStack_size(stack_) = last.before
  /\ ~(DtorCutShort /\ ~Top.unw /\ Top.failed # <<>>)

\* The process was terminated inside ~WithGroup of the local group, at
\* entry.reset().
LocalDtorCutShort == terminated /\ Top.k = "ldtor" /\ Top.pc = "reset"

\* C19 (as claimed): right after a move-construction the new group holds the
\* source's entries in their order, the source has size() 0 and no hook of a
\* moved resource has run; no resource is ever exited twice; and once the
\* group that received the entries is being destroyed, whether its destructor
\* finishes or the process ends inside it, each of its resources has been
\* exited exactly once.
C19_MoveTransfersAndExitsOnce ==
  /\ last.op = "move" =>
       /\ mem[last.ref].st = "live"
       /\ mem[last.ref].entries = last.pre
       /\ IdsOf(mem[last.ref].entries) = last.ins
       /\ WithGroup_size(mem[last.cur]) = 0
       /\ \A i \in 1..Len(last.pre) :
            /\ wst[last.pre[i].id] = "alive"
            /\ Count(log, "enter", last.pre[i].id) = 1
            /\ Exits(last.pre[i].id) = 0
  /\ \A id \in Ids : Exits(id) <= 1
  /\ last.op = "local" =>
       \A i \in 1..Len(last.ins) : Exits(last.ins[i]) = 1
  /\ LocalDtorCutShort =>
       \A i \in 1..Len(mem[Top.ref].ins) : Exits(mem[Top.ref].ins[i]) = 1

====
